---- MODULE Spec2Model ----
(***************************************************************************)
(* Model of lib/recursive.js of hsd-ens-resolution: the ENSCache (an LRU   *)
(* of compressed messages with a read-time freshness check) and            *)
(* RecursiveServer.resolve, which answers names under 'eth.' from the      *)
(* Ethereum name registry and hands every other question to the hns        *)
(* resolver.                                                               *)
(*                                                                         *)
(* Names are sequences of one-character strings, so that util.split,       *)
(* util.from, String.slice, String.toLowerCase and toKey are computed on   *)
(* the characters as the code computes them.                               *)
(*                                                                         *)
(* Two specifications share the state:                                     *)
(*   Spec       the server: queries are issued, suspend on the registry    *)
(*              or on the hns resolver, and complete in any order;         *)
(*   CacheSpec  the ENSCache driven directly through set and get.          *)
(***************************************************************************)
EXTENDS Integers, Sequences, FiniteSets, TLC

(***************************************************************************)
(* Bounds of the model.                                                    *)
(***************************************************************************)
\* queries handed to resolve in one behaviour of Spec
MaxQueries == 3
\* advances of the clock in one behaviour
MaxTicks == 1
\* capacity given to the ENSCache (the server constructs it with 500)
CacheSize == 2
\* calls of set and get in one behaviour of CacheSpec
MaxOps == 5

(***************************************************************************)
(* Program constants.                                                      *)
(***************************************************************************)
\* 6 * 60 * 60 * 1000 ms, the freshness window of ENSCache.get
FreshnessWindow == 6 * 60 * 60 * 1000
\* wire.types
TypeA == 1
TypeTXT == 16
\* rr.ttl of the synthesized record
RecordTTL == 86000

(***************************************************************************)
(* Inputs.                                                                 *)
(***************************************************************************)
a_eth == <<"a", ".", "e", "t", "h", ".">>
A_eth == <<"A", ".", "e", "t", "h", ".">>
a_ETH == <<"a", ".", "E", "T", "H", ".">>
b_eth == <<"b", ".", "e", "t", "h", ".">>
a_com == <<"a", ".", "c", "o", "m", ".">>

\* the questions handed to resolve
Questions ==
    {[name |-> a_eth, type |-> TypeTXT], [name |-> a_eth, type |-> TypeA],
     [name |-> A_eth, type |-> TypeTXT], [name |-> a_ETH, type |-> TypeTXT],
     [name |-> b_eth, type |-> TypeTXT], [name |-> a_com, type |-> TypeA]}

\* what ethClient.resolveENS can resolve to: an address, or nothing
Addresses == {"0xA", "0xB"}
RegistryResults ==
    [ok : {TRUE}, addr : Addresses] \cup {[ok |-> FALSE, addr |-> ""]}

\* the clock advances to the end of a window or one millisecond past it
TickSteps == {FreshnessWindow, FreshnessWindow + 1}

(***************************************************************************)
(* Strings.                                                                *)
(***************************************************************************)
LowerChar(c) ==
    CASE c = "A" -> "a"
      [] c = "B" -> "b"
      [] c = "E" -> "e"
      [] c = "T" -> "t"
      [] c = "H" -> "h"
      [] OTHER -> c

\* String.prototype.toLowerCase
ToLowerCase(s) == [i \in 1..Len(s) |-> LowerChar(s[i])]

\* Number.prototype.toString(10)
DigitChar(d) ==
    CASE d = 0 -> "0" [] d = 1 -> "1" [] d = 2 -> "2" [] d = 3 -> "3"
      [] d = 4 -> "4" [] d = 5 -> "5" [] d = 6 -> "6" [] d = 7 -> "7"
      [] d = 8 -> "8" [] d = 9 -> "9"

RECURSIVE ToString10(_)
ToString10(n) ==
    IF n < 10 THEN <<DigitChar(n)>>
    ELSE Append(ToString10(n \div 10), DigitChar(n % 10))

\* toKey(name, type): lowercase(name) ';' decimal(type)
toKeyNoLower(name, type) == name \o <<";">> \o ToString10(type)
toKey(name, type) == ToLowerCase(name) \o <<";">> \o ToString10(type)

(***************************************************************************)
(* bns util.split and util.from, on 0-based offsets as in the code.        *)
(***************************************************************************)
\* offset of the label that follows the one starting at off, or -1 at the end
RECURSIVE NextLabel(_, _)
NextLabel(name, off) ==
    IF off >= Len(name) THEN -1
    ELSE IF name[off + 1] = "."
         THEN (IF off + 1 >= Len(name) THEN -1 ELSE off + 1)
         ELSE NextLabel(name, off + 1)

RECURSIVE SplitFrom(_, _)
SplitFrom(name, off) ==
    LET next == NextLabel(name, off)
    IN  IF next = -1 THEN <<off>> ELSE <<off>> \o SplitFrom(name, next)

\* util.split(name): the offsets at which the labels of name start
Split(name) == IF name = <<".">> \/ name = <<>> THEN <<>> ELSE SplitFrom(name, 0)

\* util.from(name, labels, index): the name from its index-th label on
From(name, labels, index) ==
    LET i == IF index < 0 THEN index + Len(labels) ELSE index
    IN  IF i >= Len(labels) THEN <<>>
        ELSE SubSeq(name, labels[i + 1] + 1, Len(name))

\* the label resolve compares against
ReservedLabel == <<"e", "t", "h", ".">>


(***************************************************************************)
(* Messages.  A message is its id, opcode, ad flag, response code,         *)
(* question section and answer section.                                    *)
(***************************************************************************)
\* the value ENSCache.get returns for a miss
NullMsg == [null |-> TRUE]

\* a resource record carrying one TXT string
TXTAnswer(name, type, ttl, txt) ==
    [name |-> name, type |-> type, ttl |-> ttl, txt |-> txt]

\* Message.compress(): the wire form.  The name of an answer that was
\* already written for a question is written as a pointer to that question.
CompressName(name, question) ==
    IF \E k \in 1..Len(question) : question[k].name = name
    THEN [tag |-> "ptr",
          at |-> CHOOSE k \in 1..Len(question) :
                    /\ question[k].name = name
                    /\ \A j \in 1..(k - 1) : question[j].name # name,
          lit |-> <<>>]
    ELSE [tag |-> "lit", at |-> 0, lit |-> name]

Compress(msg) ==
    [id |-> msg.id,
     bits |-> <<msg.opcode, msg.ad, msg.code>>,
     qd |-> msg.question,
     an |-> [i \in 1..Len(msg.answer) |->
                [owner |-> CompressName(msg.answer[i].name, msg.question),
                 type |-> msg.answer[i].type,
                 ttl |-> msg.answer[i].ttl,
                 rdata |-> msg.answer[i].txt]]]

\* Message.decode(raw)
DecodeName(owner, qd) ==
    IF owner.tag = "ptr" THEN qd[owner.at].name ELSE owner.lit

Decode(raw) ==
    [id |-> raw.id,
     opcode |-> raw.bits[1],
     ad |-> raw.bits[2],
     code |-> raw.bits[3],
     question |-> raw.qd,
     answer |-> [i \in 1..Len(raw.an) |->
                    TXTAnswer(DecodeName(raw.an[i].owner, raw.qd),
                              raw.an[i].type, raw.an[i].ttl,
                              raw.an[i].rdata)]]

(***************************************************************************)
(* The LRU behind the cache (blru): items from the least recently used     *)
(* (head, index 1) to the most recently used (tail).                       *)
(***************************************************************************)
LRUNew(capacity) == [capacity |-> capacity, items |-> <<>>]

Keys(lru) == {lru.items[i].key : i \in 1..Len(lru.items)}

IndexOf(lru, key) == CHOOSE i \in 1..Len(lru.items) : lru.items[i].key = key

RemoveAt(seq, i) == SubSeq(seq, 1, i - 1) \o SubSeq(seq, i + 1, Len(seq))

\* _compact(): drop items from the head while there are more than capacity
RECURSIVE Compact(_, _)
Compact(items, capacity) ==
    IF Len(items) <= capacity THEN items
    ELSE Compact(Tail(items), capacity)

\* LRU.set(key, value): overwrite and move to the tail, or append and compact
LRUSet(lru, key, value) ==
    IF lru.capacity = 0 THEN lru
    ELSE IF key \in Keys(lru)
         THEN [lru EXCEPT !.items =
                  Append(RemoveAt(lru.items, IndexOf(lru, key)),
                         [key |-> key, value |-> value])]
         ELSE [lru EXCEPT !.items =
                  Compact(Append(lru.items, [key |-> key, value |-> value]),
                          lru.capacity)]

\* LRU.get(key): the value, and the item moved to the tail
LRUGet(lru, key) ==
    IF lru.capacity = 0 \/ key \notin Keys(lru)
    THEN [found |-> FALSE, lru |-> lru]
    ELSE LET i == IndexOf(lru, key)
         IN  [found |-> TRUE,
              value |-> lru.items[i].value,
              lru |-> [lru EXCEPT !.items =
                          Append(RemoveAt(lru.items, i), lru.items[i])]]

(***************************************************************************)
(* ENSCache.                                                               *)
(***************************************************************************)
ENSCacheNewOffByOne(size) == LRUNew(size + 1)
ENSCacheNew(size) == LRUNew(size)

\* set(name, type, msg) at clock t
ENSCacheSet(cache, name, type, msg, t) ==
    LRUSet(cache, toKey(name, type), [time |-> t, raw |-> Compress(msg)])

\* the freshness test of get: Date.now() > item.time + 6h is stale
IsStaleOffByOne(t, item) == t >= item.time + FreshnessWindow
IsStaleNoWindow(t, item) == t > item.time
IsStale(t, item) == t > item.time + FreshnessWindow

\* get(name, type) at clock t: the message returned and the cache left
ENSCacheGetSliding(cache, name, type, t) ==
    LET key == toKey(name, type)
        got == LRUGet(cache, key)
    IN  IF ~got.found THEN [msg |-> NullMsg, cache |-> got.lru]
        ELSE IF IsStale(t, got.value) THEN [msg |-> NullMsg, cache |-> got.lru]
        ELSE [msg |-> Decode(got.value.raw),
              cache |-> LRUSet(got.lru, key, [got.value EXCEPT !.time = t])]
ENSCacheGetPurges(cache, name, type, t) ==
    LET key == toKey(name, type)
        got == LRUGet(cache, key)
    IN  IF ~got.found THEN [msg |-> NullMsg, cache |-> got.lru]
        ELSE IF IsStale(t, got.value)
             THEN [msg |-> NullMsg,
                   cache |-> [got.lru EXCEPT !.items =
                                 RemoveAt(@, IndexOf(got.lru, key))]]
        ELSE [msg |-> Decode(got.value.raw), cache |-> got.lru]
ENSCacheGet(cache, name, type, t) ==
    LET got == LRUGet(cache, toKey(name, type))
    IN  IF ~got.found THEN [msg |-> NullMsg, cache |-> got.lru]
        ELSE IF IsStale(t, got.value) THEN [msg |-> NullMsg, cache |-> got.lru]
        ELSE [msg |-> Decode(got.value.raw), cache |-> got.lru]


(***************************************************************************)
(* RecursiveServer.resolve, piece by piece.                                *)
(***************************************************************************)
\* label === 'eth.', label being the last label of qs.name
IsReservedNoDot(name) == From(name, Split(name), -1) = <<"e", "t", "h">>
IsReserved(name) == From(name, Split(name), -1) = ReservedLabel

\* the record type resolve hands to cache.get and cache.set: types.TXT
CacheType(qs) == TypeTXT

\* qs.name.slice(0, qs.name.length - 1)
BareNameKeepsDot(name) ==
    name
BareName(name) == SubSeq(name, 1, Len(name) - 1)

\* `${res}` of the template literal
TemplateString(res) == IF res.ok THEN res.addr ELSE "null"

\* the message resolve builds from the registry's result
Synthesize(qs, name, res) ==
    LET data == <<"oa1:eth ", "recipient_address=", TemplateString(res),
                  "; ", "recipient_name=">> \o name \o <<";">>
    IN  [id |-> 0,
         opcode |-> "QUERY",
         ad |-> FALSE,
         code |-> "NOERROR",
         question |-> <<qs>>,
         answer |-> <<TXTAnswer(qs.name, TypeTXT, RecordTTL, data)>>]

\* what this.hns.resolve(qs) can answer
HnsCodes == {"NOERROR"}
HnsAnswer(qs, code) ==
    [id |-> 0, opcode |-> "QUERY", ad |-> TRUE, code |-> code,
     question |-> <<qs>>, answer |-> <<>>]

\* the rejection of resolve's promise
Fault(from) == [fault |-> from]

(***************************************************************************)
(* State.                                                                  *)
(***************************************************************************)
VARIABLES
    queries,    \* the calls of resolve, in the order they were made
    cache,      \* this.cache
    now,        \* Date.now()
    ticks,      \* advances of the clock so far
    shadow,     \* history: for each stored key, the set that wrote it,
                \* ordered from the least to the most recently accessed
    nops,       \* CacheSpec: calls of set and get so far
    lastOp,     \* CacheSpec: the last call of set or get and its outcome
    life,       \* SystemSpec: open() and close(), the adapter, the transport
    lookups     \* SystemSpec: the calls of lookup, in the order made

vars == <<queries, cache, now, ticks, shadow, nops, lastOp, life, lookups>>

QueryIds == 1..MaxQueries

NoQuestion == [name |-> <<>>, type |-> 0]
NoResult == [ok |-> FALSE, addr |-> ""]

IdleQuery ==
    [pc |-> "idle",         \* idle, awaitENS, awaitHNS, done, fault
     qs |-> NoQuestion,     \* req.question[0]
     route |-> "none",      \* ens: the 'eth.' branch; hns: the last line
     ethArgs |-> <<>>,      \* arguments of the calls of resolveENS
     hnsArgs |-> <<>>,      \* arguments of the calls of hns.resolve
     gets |-> <<>>,         \* keys of the calls of cache.get
     sets |-> <<>>,         \* keys of the calls of cache.set
     hit |-> FALSE,         \* answered from the cache
     src |-> 0,             \* the query whose set wrote the entry found
     prior |-> {},          \* earlier queries the claim on repeats covers
     regDone |-> FALSE,     \* resolveENS returned
     reg |-> NoResult,      \* what resolveENS returned
     hnsRes |-> NullMsg,    \* what hns.resolve returned or threw
     wroteAt |-> -1,        \* clock of this query's cache.set
     evicted |-> FALSE,     \* the entry of this query's key was evicted
     peers |-> {},          \* the queries in flight when this one failed
     res |-> NullMsg]       \* what resolve returned or threw

NoOp ==
    [op |-> "none",         \* set or get
     name |-> <<>>,         \* its name argument
     type |-> 0,            \* its type argument
     msg |-> NullMsg,       \* the message given to set
     out |-> NullMsg,       \* the message get returned
     at |-> 0,              \* the clock of the call
     keysBefore |-> {},     \* the keys stored before the call
     lruBefore |-> <<>>,    \* the least recently used key before the call
     lruSetAt |-> 0,        \* the clock of the set that stored that key
     evicted |-> {}]        \* the keys the call evicted

(***************************************************************************)
(* History bookkeeping (no part of the program).                           *)
(***************************************************************************)
RECURSIVE SelectKeys(_, _)
SelectKeys(sh, keys) ==
    IF sh = <<>> THEN <<>>
    ELSE IF Head(sh).key \in keys
         THEN <<Head(sh)>> \o SelectKeys(Tail(sh), keys)
         ELSE SelectKeys(Tail(sh), keys)

ShadowKeys(sh) == {sh[i].key : i \in 1..Len(sh)}
ShadowAt(sh, key) == sh[CHOOSE i \in 1..Len(sh) : sh[i].key = key]

\* an access of key: it becomes the most recently used
ShadowTouch(sh, key) ==
    IF key \in ShadowKeys(sh)
    THEN SelectKeys(sh, ShadowKeys(sh) \ {key}) \o <<ShadowAt(sh, key)>>
    ELSE sh

\* a set of key by query `by`; only what the cache kept stays
ShadowSet(sh, key, name, type, msg, t, by, kept) ==
    SelectKeys(SelectKeys(sh, ShadowKeys(sh) \ {key})
                 \o <<[key |-> key, name |-> name, type |-> type,
                       msg |-> msg, time |-> t, by |-> by]>>,
               kept)

\* the server after its constructor: open() not called yet, the hns
\* resolver not opened, the socket of the DNSServer not bound
Constructed == [pc |-> "constructed", hns |-> "closed", transport |-> "unbound"]

Init ==
    /\ queries = [i \in QueryIds |-> IdleQuery]
    /\ cache = ENSCacheNew(CacheSize)
    /\ now = 0
    /\ ticks = 0
    /\ shadow = <<>>
    /\ nops = 0
    /\ lastOp = NoOp
    /\ life = Constructed
    /\ lookups = <<>>


(***************************************************************************)
(* The server.                                                             *)
(***************************************************************************)
\* earlier queries for the same name that completed by storing an answer
\* no more than a window ago, whose entry was not evicted since
PriorOf(name) ==
    {j \in QueryIds :
        /\ queries[j].pc = "done"
        /\ queries[j].wroteAt >= 0
        /\ queries[j].qs.name = name
        /\ ~queries[j].evicted
        /\ now <= queries[j].wroteAt + FreshnessWindow}

\* the queries suspended on the registry or on the hns resolver
InFlight == {j \in QueryIds : queries[j].pc \in {"awaitENS", "awaitHNS"}}

\* resolve(req) up to its first await: the classification, the cache
\* lookup and the call of resolveENS or of hns.resolve
ResolveWaitsForPeer(i, qs) ==
    /\ queries[i].pc = "idle"
    /\ \A j \in 1..(i - 1) : queries[j].pc # "idle"
    /\ queries' = [queries EXCEPT ![i] =
          [@ EXCEPT !.qs = qs,
                    !.route = IF IsReserved(qs.name) THEN "ens" ELSE "hns",
                    !.pc = IF InFlight # {} THEN "awaitPeer"
                           ELSE IF IsReserved(qs.name) THEN "awaitENS"
                           ELSE "awaitHNS",
                    !.ethArgs = IF IsReserved(qs.name)
                                THEN <<BareName(qs.name)>> ELSE <<>>,
                    !.hnsArgs = IF IsReserved(qs.name) THEN <<>> ELSE <<qs>>]]
    /\ UNCHANGED <<cache, shadow, now, ticks, nops, lastOp, life, lookups>>
Resolve(i, qs) ==
    /\ queries[i].pc = "idle"
    /\ \A j \in 1..(i - 1) : queries[j].pc # "idle"
    /\ IF IsReserved(qs.name)
       THEN LET key == toKey(qs.name, CacheType(qs))
                got == ENSCacheGet(cache, qs.name, CacheType(qs), now)
                q == [queries[i] EXCEPT
                        !.qs = qs,
                        !.route = "ens",
                        !.gets = Append(@, key),
                        !.prior = PriorOf(qs.name),
                        !.src = IF key \in ShadowKeys(shadow)
                                THEN ShadowAt(shadow, key).by ELSE 0]
            IN  /\ cache' = got.cache
                /\ shadow' = ShadowTouch(shadow, key)
                /\ IF got.msg # NullMsg
                   THEN queries' = [queries EXCEPT ![i] =
                            [q EXCEPT !.pc = "done", !.hit = TRUE,
                                      !.res = got.msg]]
                   ELSE queries' = [queries EXCEPT ![i] =
                            [q EXCEPT !.pc = "awaitENS",
                                      !.ethArgs = Append(@, BareName(qs.name))]]
       ELSE /\ queries' = [queries EXCEPT ![i] =
                    [@ EXCEPT !.qs = qs, !.route = "hns", !.pc = "awaitHNS",
                              !.hnsArgs = Append(@, qs)]]
            /\ UNCHANGED <<cache, shadow>>
    /\ UNCHANGED <<now, ticks, nops, lastOp, life, lookups>>

\* resolveENS returns res: the answer is built, stored and returned
EthReturnFirstWriteWins(i, res) ==
    /\ queries[i].pc = "awaitENS"
    /\ LET qs == queries[i].qs
           key == toKey(qs.name, CacheType(qs))
           msg == Synthesize(qs, BareName(qs.name), res)
           stored == IF key \in Keys(cache) THEN cache
                     ELSE ENSCacheSet(cache, qs.name, CacheType(qs), msg, now)
       IN  /\ cache' = stored
           /\ shadow' = ShadowSet(shadow, key, qs.name, CacheType(qs), msg,
                                  now, i, Keys(stored))
           /\ queries' = [queries EXCEPT ![i] =
                 [@ EXCEPT !.pc = "done", !.regDone = TRUE, !.reg = res,
                           !.sets = Append(@, key), !.wroteAt = now,
                           !.res = msg]]
    /\ UNCHANGED <<now, ticks, nops, lastOp, life, lookups>>
EthReturn(i, res) ==
    /\ queries[i].pc = "awaitENS"
    /\ LET qs == queries[i].qs
           key == toKey(qs.name, CacheType(qs))
           msg == Synthesize(qs, BareName(qs.name), res)
           stored == ENSCacheSet(cache, qs.name, CacheType(qs), msg, now)
           gone == Keys(cache) \ Keys(stored)
       IN  /\ cache' = stored
           /\ shadow' = ShadowSet(shadow, key, qs.name, CacheType(qs), msg,
                                  now, i, Keys(stored))
           /\ queries' = [j \in QueryIds |->
                 IF j = i
                 THEN [queries[j] EXCEPT
                         !.pc = "done", !.regDone = TRUE, !.reg = res,
                         !.sets = Append(@, key), !.wroteAt = now,
                         !.res = msg]
                 ELSE IF /\ queries[j].wroteAt >= 0
                         /\ toKey(queries[j].qs.name,
                                  CacheType(queries[j].qs)) \in gone
                      THEN [queries[j] EXCEPT !.evicted = TRUE]
                      ELSE queries[j]]
    /\ UNCHANGED <<now, ticks, nops, lastOp, life, lookups>>

\* resolveENS throws: the await rethrows and resolve's promise is rejected
EthFailAnswersNegative(i) ==
    /\ queries[i].pc = "awaitENS"
    /\ LET qs == queries[i].qs
           key == toKey(qs.name, CacheType(qs))
           msg == [id |-> 0, opcode |-> "QUERY", ad |-> FALSE,
                   code |-> "NXDOMAIN", question |-> <<qs>>, answer |-> <<>>]
           stored == ENSCacheSet(cache, qs.name, CacheType(qs), msg, now)
       IN  /\ cache' = stored
           /\ shadow' = ShadowSet(shadow, key, qs.name, CacheType(qs), msg,
                                  now, i, Keys(stored))
           /\ queries' = [queries EXCEPT ![i] =
                 [@ EXCEPT !.pc = "fault", !.sets = Append(@, key),
                           !.peers = InFlight \ {i},
                           !.res = Fault("registry")]]
    /\ UNCHANGED <<now, ticks, nops, lastOp, life, lookups>>
EthFail(i) ==
    /\ queries[i].pc = "awaitENS"
    /\ queries' = [queries EXCEPT ![i] =
          [@ EXCEPT !.pc = "fault", !.peers = InFlight \ {i},
                    !.res = Fault("registry")]]
    /\ UNCHANGED <<cache, shadow, now, ticks, nops, lastOp, life, lookups>>

\* hns.resolve returns: resolve returns that message
HnsReturnCaches(i, code) ==
    /\ queries[i].pc = "awaitHNS"
    /\ LET qs == queries[i].qs
           answer == HnsAnswer(queries[i].hnsArgs[1], code)
           stored == ENSCacheSet(cache, qs.name, qs.type, answer, now)
       IN  /\ cache' = stored
           /\ shadow' = ShadowSet(shadow, toKey(qs.name, qs.type), qs.name,
                                  qs.type, answer, now, i, Keys(stored))
           /\ queries' = [queries EXCEPT ![i] =
                 [@ EXCEPT !.pc = "done", !.hnsRes = answer, !.res = answer]]
    /\ UNCHANGED <<now, ticks, nops, lastOp, life, lookups>>
HnsReturnInOrder(i, code) ==
    /\ queries[i].pc = "awaitHNS"
    /\ \A j \in 1..(i - 1) : queries[j].pc \notin {"awaitENS", "awaitHNS"}
    /\ LET answer == HnsAnswer(queries[i].hnsArgs[1], code)
       IN  queries' = [queries EXCEPT ![i] =
              [@ EXCEPT !.pc = "done", !.hnsRes = answer, !.res = answer]]
    /\ UNCHANGED <<cache, shadow, now, ticks, nops, lastOp, life, lookups>>
HnsReturn(i, code) ==
    /\ queries[i].pc = "awaitHNS"
    /\ LET answer == HnsAnswer(queries[i].hnsArgs[1], code)
       IN  queries' = [queries EXCEPT ![i] =
              [@ EXCEPT !.pc = "done", !.hnsRes = answer, !.res = answer]]
    /\ UNCHANGED <<cache, shadow, now, ticks, nops, lastOp, life, lookups>>

\* hns.resolve throws: resolve's promise is rejected with the same error
HnsFailRetries(i) ==
    /\ queries[i].pc = "awaitHNS"
    /\ LET thrown == Fault("hns")
       IN  queries' = [queries EXCEPT ![i] =
              IF Len(@.hnsArgs) < 2
              THEN [@ EXCEPT !.hnsRes = thrown,
                             !.hnsArgs = Append(@, queries[i].qs)]
              ELSE [@ EXCEPT !.pc = "fault", !.peers = InFlight \ {i},
                             !.hnsRes = thrown, !.res = thrown]]
    /\ UNCHANGED <<cache, shadow, now, ticks, nops, lastOp, life, lookups>>
HnsFail(i) ==
    /\ queries[i].pc = "awaitHNS"
    /\ LET thrown == Fault("hns")
       IN  queries' = [queries EXCEPT ![i] =
              [@ EXCEPT !.pc = "fault", !.peers = InFlight \ {i},
                        !.hnsRes = thrown, !.res = thrown]]
    /\ UNCHANGED <<cache, shadow, now, ticks, nops, lastOp, life, lookups>>

\* the clock advances
Tick(d) ==
    /\ ticks < MaxTicks
    /\ now' = now + d
    /\ ticks' = ticks + 1
    /\ UNCHANGED <<queries, cache, shadow, nops, lastOp, life, lookups>>

Next ==
    \/ \E i \in QueryIds, qs \in Questions : Resolve(i, qs)
    \/ \E i \in QueryIds, res \in RegistryResults : EthReturn(i, res)
    \/ \E i \in QueryIds : EthFail(i)
    \/ \E i \in QueryIds, code \in HnsCodes : HnsReturn(i, code)
    \/ \E i \in QueryIds : HnsFail(i)
    \/ \E d \in TickSteps : Tick(d)

Spec == Init /\ [][Next]_vars


(***************************************************************************)
(* The cache on its own: any sequence of set and get, at any clock.        *)
(***************************************************************************)
\* the (name, type) arguments: two spellings of one name, two types of one
\* name, and two more names
CacheArgs ==
    {<<a_eth, TypeTXT>>, <<A_eth, TypeTXT>>, <<a_eth, TypeA>>,
     <<b_eth, TypeTXT>>, <<a_com, TypeTXT>>}

\* the messages given to set: an answer owned by the question's name, and
\* an answer owned by another spelling of it
CacheMsgs ==
    {Synthesize([name |-> a_eth, type |-> TypeTXT], BareName(a_eth),
                [ok |-> TRUE, addr |-> "0xA"]),
     [id |-> 7, opcode |-> "QUERY", ad |-> TRUE, code |-> "NOERROR",
      question |-> <<[name |-> A_eth, type |-> TypeA]>>,
      answer |-> <<TXTAnswer(a_eth, TypeTXT, 60, <<"x">>),
                   TXTAnswer(A_eth, TypeTXT, 60, <<"y">>)>>]}

LeastRecent(sh) == IF sh = <<>> THEN <<>> ELSE Head(sh).key
LeastRecentSetAt(sh) == IF sh = <<>> THEN 0 ELSE Head(sh).time

CacheSetOp(name, type, msg) ==
    /\ nops < MaxOps
    /\ LET key == toKey(name, type)
           stored == ENSCacheSet(cache, name, type, msg, now)
       IN  /\ cache' = stored
           /\ shadow' = ShadowSet(shadow, key, name, type, msg, now, 0,
                                  Keys(stored))
           /\ lastOp' = [op |-> "set", name |-> name, type |-> type,
                         msg |-> msg, out |-> NullMsg, at |-> now,
                         keysBefore |-> Keys(cache),
                         lruBefore |-> LeastRecent(shadow),
                         lruSetAt |-> LeastRecentSetAt(shadow),
                         evicted |-> Keys(cache) \ Keys(stored)]
    /\ nops' = nops + 1
    /\ UNCHANGED <<queries, now, ticks, life, lookups>>

CacheGetOp(name, type) ==
    /\ nops < MaxOps
    /\ LET key == toKey(name, type)
           got == ENSCacheGet(cache, name, type, now)
       IN  /\ cache' = got.cache
           /\ shadow' = ShadowTouch(shadow, key)
           /\ lastOp' = [op |-> "get", name |-> name, type |-> type,
                         msg |-> NullMsg, out |-> got.msg, at |-> now,
                         keysBefore |-> Keys(cache),
                         lruBefore |-> LeastRecent(shadow),
                         lruSetAt |-> LeastRecentSetAt(shadow),
                         evicted |-> Keys(cache) \ Keys(got.cache)]
    /\ nops' = nops + 1
    /\ UNCHANGED <<queries, now, ticks, life, lookups>>

\* time passes between two calls
Elapse(d) ==
    /\ nops < MaxOps
    /\ now' = now + d
    /\ nops' = nops + 1
    /\ UNCHANGED <<queries, cache, shadow, ticks, lastOp, life, lookups>>

CacheNext ==
    \/ \E a \in CacheArgs, msg \in CacheMsgs : CacheSetOp(a[1], a[2], msg)
    \/ \E a \in CacheArgs : CacheGetOp(a[1], a[2])
    \/ \E d \in TickSteps : Elapse(d)

CacheSpec == Init /\ [][CacheNext]_vars


(***************************************************************************)
(* The server with its lifecycle: open() and close() around the queries    *)
(* the transport delivers, and the calls of lookup.                        *)
(***************************************************************************)
\* queries the transport delivers, and calls of lookup, in one behaviour
MaxArrivals == 2
MaxLookups == 1

\* the (name, type) arguments of lookup: a reserved name and another one
LookupArgs == {[name |-> a_eth, type |-> TypeTXT], [name |-> a_com, type |-> TypeA]}

\* open(): `await this.hns.open()` returns
OpenAdapterAfterBind ==
    /\ life.pc = "constructed"
    /\ life' = [life EXCEPT !.pc = "adapterOpen", !.transport = "bound"]
    /\ UNCHANGED <<queries, cache, now, ticks, shadow, nops, lastOp, lookups>>
OpenAdapter ==
    /\ life.pc = "constructed"
    /\ life' = [life EXCEPT !.pc = "adapterOpen", !.hns = "open"]
    /\ UNCHANGED <<queries, cache, now, ticks, shadow, nops, lastOp, lookups>>

\* open(): `await this.hns.open()` throws, open() rejects there
OpenAdapterFail ==
    /\ life.pc = "constructed"
    /\ life' = [life EXCEPT !.pc = "openFailed"]
    /\ UNCHANGED <<queries, cache, now, ticks, shadow, nops, lastOp, lookups>>

\* open(): `await super.open(this.port, this.host)` returns, the socket is
\* bound and queries are delivered to resolve
OpenTransport ==
    /\ life.pc = "adapterOpen"
    /\ life' = [life EXCEPT !.pc = "open", !.transport = "bound"]
    /\ UNCHANGED <<queries, cache, now, ticks, shadow, nops, lastOp, lookups>>

\* open(): `await super.open(...)` throws (the port is taken)
OpenTransportFail ==
    /\ life.pc = "adapterOpen"
    /\ life' = [life EXCEPT !.pc = "openFailed"]
    /\ UNCHANGED <<queries, cache, now, ticks, shadow, nops, lastOp, lookups>>

\* close(): `await super.close()` returns, the socket is closed
CloseTransport ==
    /\ life.pc = "open"
    /\ life' = [life EXCEPT !.pc = "transportClosed", !.transport = "unbound"]
    /\ UNCHANGED <<queries, cache, now, ticks, shadow, nops, lastOp, lookups>>

\* close(): `await super.close()` throws, close() rejects there
CloseTransportFail ==
    /\ life.pc = "open"
    /\ life' = [life EXCEPT !.pc = "closeFailed"]
    /\ UNCHANGED <<queries, cache, now, ticks, shadow, nops, lastOp, lookups>>

\* close(): `await this.hns.close()` returns
CloseAdapter ==
    /\ life.pc = "transportClosed"
    /\ life' = [life EXCEPT !.pc = "closed", !.hns = "closed"]
    /\ UNCHANGED <<queries, cache, now, ticks, shadow, nops, lastOp, lookups>>

\* close(): `await this.hns.close()` throws
CloseAdapterFail ==
    /\ life.pc = "transportClosed"
    /\ life' = [life EXCEPT !.pc = "closeFailed"]
    /\ UNCHANGED <<queries, cache, now, ticks, shadow, nops, lastOp, lookups>>

\* the bound transport delivers a query to resolve
Arrive(i, qs) ==
    /\ life.transport = "bound"
    /\ i <= MaxArrivals
    /\ Resolve(i, qs)

\* lookup(name, type): the one call of hns.lookup, whose promise is returned
LookupIntercepts(name, type) ==
    /\ Len(lookups) < MaxLookups
    /\ lookups' = Append(lookups,
          [name |-> name, type |-> type, pc |-> "await",
           hnsArgs |-> IF IsReserved(name) THEN <<>>
                       ELSE <<[name |-> name, type |-> type]>>,
           res |-> NullMsg])
    /\ cache' = IF IsReserved(name)
                THEN ENSCacheGet(cache, name, type, now).cache ELSE cache
    /\ shadow' = IF IsReserved(name)
                 THEN ShadowTouch(shadow, toKey(name, type)) ELSE shadow
    /\ UNCHANGED <<queries, now, ticks, nops, lastOp, life>>
Lookup(name, type) ==
    /\ Len(lookups) < MaxLookups
    /\ lookups' = Append(lookups,
          [name |-> name, type |-> type, pc |-> "await",
           hnsArgs |-> <<[name |-> name, type |-> type]>>,
           res |-> NullMsg])
    /\ UNCHANGED <<queries, cache, now, ticks, shadow, nops, lastOp, life>>

\* hns.lookup returns: the promise lookup returned resolves to that message
LookupReturn(k, code) ==
    /\ k \in 1..Len(lookups)
    /\ lookups[k].pc = "await"
    /\ lookups' = [lookups EXCEPT ![k] =
          [@ EXCEPT !.pc = "done",
                    !.res = HnsAnswer(lookups[k].hnsArgs[1], code)]]
    /\ UNCHANGED <<queries, cache, now, ticks, shadow, nops, lastOp, life>>

\* hns.lookup throws: the promise lookup returned rejects with that error
LookupFail(k) ==
    /\ k \in 1..Len(lookups)
    /\ lookups[k].pc = "await"
    /\ lookups' = [lookups EXCEPT ![k] =
          [@ EXCEPT !.pc = "fault", !.res = Fault("hns")]]
    /\ UNCHANGED <<queries, cache, now, ticks, shadow, nops, lastOp, life>>

SystemNext ==
    \/ OpenAdapter
    \/ OpenAdapterFail
    \/ OpenTransport
    \/ OpenTransportFail
    \/ CloseTransport
    \/ CloseTransportFail
    \/ CloseAdapter
    \/ CloseAdapterFail
    \/ \E i \in QueryIds, qs \in Questions : Arrive(i, qs)
    \/ \E i \in QueryIds, res \in RegistryResults : EthReturn(i, res)
    \/ \E i \in QueryIds : EthFail(i)
    \/ \E i \in QueryIds, code \in HnsCodes : HnsReturn(i, code)
    \/ \E i \in QueryIds : HnsFail(i)
    \/ \E d \in TickSteps : Tick(d)
    \/ \E a \in LookupArgs : Lookup(a.name, a.type)
    \/ \E k \in 1..MaxLookups, code \in HnsCodes : LookupReturn(k, code)
    \/ \E k \in 1..MaxLookups : LookupFail(k)

SystemSpec == Init /\ [][SystemNext]_vars


(***************************************************************************)
(* Properties of the server (checked under Spec).                          *)
(***************************************************************************)
Issued == {i \in QueryIds : queries[i].pc # "idle"}

\* the rightmost label of a name, read off its characters
TopLabel(name) == From(name, Split(name), -1)

\* C1: a question whose top-level label is 'eth.' takes the interception
\* path and hns.resolve is never called for it; any other question is
\* handed to hns.resolve, and for it resolveENS is never called and the
\* cache is neither read nor written.
RoutingExclusive ==
    \A i \in Issued :
        IF TopLabel(queries[i].qs.name) = ReservedLabel
        THEN /\ queries[i].route = "ens"
             /\ queries[i].hnsArgs = <<>>
        ELSE /\ queries[i].route = "hns"
             /\ queries[i].hnsArgs # <<>>
             /\ queries[i].ethArgs = <<>>
             /\ queries[i].gets = <<>>
             /\ queries[i].sets = <<>>

RoutingExclusiveWitness ==
    \E i, j \in QueryIds :
        /\ queries[i].pc = "done" /\ queries[i].route = "ens"
        /\ queries[i].ethArgs # <<>> /\ queries[i].sets # <<>>
        /\ queries[j].pc = "done" /\ queries[j].route = "hns"
        /\ queries[j].qs.name = a_com

\* C2: a question whose top-level label is 'eth' after case normalization
\* takes the interception path; every other question is handed to
\* hns.resolve unmodified and the adapter's answer is returned as it is.
CaseNormalizedRouting ==
    \A i \in Issued :
        IF ToLowerCase(TopLabel(queries[i].qs.name)) = ReservedLabel
        THEN queries[i].route = "ens"
        ELSE /\ queries[i].route = "hns"
             /\ queries[i].hnsArgs = <<queries[i].qs>>
             /\ queries[i].pc = "done" => queries[i].res = queries[i].hnsRes

RegistryMissIsNegative ==
    \A i \in Issued :
        (queries[i].pc = "done" /\ queries[i].regDone /\ ~queries[i].reg.ok)
            => /\ queries[i].res.code = "NXDOMAIN"
               /\ queries[i].res.answer = <<>>
               /\ queries[i].sets = <<>>

\* C5: when resolveENS throws for a query, that query ends in a fault, it
\* has stored nothing, the step leaves the cache and every other query as
\* they were, and the queries that complete return the answer built from
\* their own question and their own registry result.
RegistryFaultIsolated ==
    [][ /\ \A i \in QueryIds :
              (queries[i].pc = "awaitENS" /\ queries'[i].pc = "fault")
                  => /\ queries'[i].res = Fault("registry")
                     /\ queries'[i].sets = <<>>
                     /\ cache' = cache
                     /\ \A j \in QueryIds \ {i} : queries'[j] = queries[j]
        /\ \A j \in QueryIds :
              (queries'[j].pc = "done" /\ queries'[j].regDone)
                  => queries'[j].res =
                        Synthesize(queries'[j].qs,
                                   BareName(queries'[j].qs.name),
                                   queries'[j].reg)
      ]_vars

RegistryFaultIsolatedWitness ==
    \E i \in QueryIds :
        /\ queries[i].pc = "fault" /\ queries[i].route = "ens"
        /\ \E j \in queries[i].peers :
              /\ queries[j].pc = "done"
              /\ queries[j].regDone
              /\ queries[j].qs.name = queries[i].qs.name

\* C10: the interception path reads and writes the cache under the name
\* and the record type of the question, and a query is never answered from
\* an entry that a query of another record type created.
CacheKeyedByQuestionType ==
    \A i \in Issued :
        queries[i].route = "ens" =>
            /\ queries[i].gets = <<toKey(queries[i].qs.name, queries[i].qs.type)>>
            /\ \A k \in 1..Len(queries[i].sets) :
                  queries[i].sets[k] = toKey(queries[i].qs.name, queries[i].qs.type)
            /\ queries[i].hit =>
                  queries[queries[i].src].qs.type = queries[i].qs.type

(***************************************************************************)
(* Properties of the cache (checked under CacheSpec).                      *)
(***************************************************************************)
\* the sets still stored that were made under this name, whatever its
\* letter case, and this type
Live(name, type) ==
    {e \in {shadow[k] : k \in 1..Len(shadow)} :
        ToLowerCase(e.name) = ToLowerCase(name) /\ e.type = type}

\* C6: the cache never holds more entries than its capacity; a set of a
\* new key into a full cache evicts exactly one entry, the least recently
\* used one, and no other call evicts anything.
CacheBounded ==
    /\ Len(cache.items) <= CacheSize
    /\ Cardinality(Keys(cache)) = Len(cache.items)
    /\ IF /\ lastOp.op = "set"
          /\ Cardinality(lastOp.keysBefore) = CacheSize
          /\ toKey(lastOp.name, lastOp.type) \notin lastOp.keysBefore
       THEN lastOp.evicted = {lastOp.lruBefore}
       ELSE lastOp.evicted = {}

\* an eviction that spared an entry stored before the evicted one: a get
\* in between had made it the more recently used
CacheBoundedWitness ==
    /\ lastOp.op = "set"
    /\ lastOp.evicted = {lastOp.lruBefore}
    /\ Len(cache.items) = CacheSize
    /\ \E k \in 1..Len(shadow) :
          /\ shadow[k].key # toKey(lastOp.name, lastOp.type)
          /\ shadow[k].time < lastOp.lruSetAt

\* C7: get returns absent for a key that is not stored, and absent once
\* more than a window has passed since the last set of the key, whatever
\* gets were made in between.
ExpiryOnRead ==
    lastOp.op = "get" =>
        /\ Live(lastOp.name, lastOp.type) = {} => lastOp.out = NullMsg
        /\ \A e \in Live(lastOp.name, lastOp.type) :
              lastOp.at > e.time + FreshnessWindow => lastOp.out = NullMsg

ExpiryOnReadWitness ==
    /\ lastOp.op = "get"
    /\ lastOp.out = NullMsg
    /\ \E e \in Live(lastOp.name, lastOp.type) :
          /\ lastOp.at = e.time + FreshnessWindow + 1
          /\ nops >= 4

\* C8: get(N, T) after set(N, T, R) returns a message with the content of
\* R when no more than a window has passed, the end of the window
\* included, and the entry was neither evicted nor overwritten.
CacheRoundTrip ==
    lastOp.op = "get" =>
        \A e \in Live(lastOp.name, lastOp.type) :
            (e.name = lastOp.name /\ lastOp.at <= e.time + FreshnessWindow)
                => lastOp.out = e.msg

CacheRoundTripWitness ==
    /\ lastOp.op = "get"
    /\ \E e \in Live(lastOp.name, lastOp.type) :
          /\ e.name = lastOp.name
          /\ lastOp.at = e.time + FreshnessWindow
          /\ lastOp.out = e.msg
          /\ Len(e.msg.answer) = 2

\* C9: within the window and without eviction, get(N2, T2) is a hit if and
\* only if a set(N1, T1, R) was made with lowercase(N1) = lowercase(N2)
\* and T1 = T2.
KeyNormalization ==
    lastOp.op = "get" =>
        (lastOp.out # NullMsg
            <=> \E e \in Live(lastOp.name, lastOp.type) :
                    lastOp.at <= e.time + FreshnessWindow)

\* a hit under another spelling of the name, while the same name under
\* another type is stored too
KeyNormalizationWitness ==
    /\ lastOp.op = "get"
    /\ lastOp.out # NullMsg
    /\ \E e \in Live(lastOp.name, lastOp.type) : e.name # lastOp.name
    /\ \E k \in 1..Len(shadow) :
          /\ ToLowerCase(shadow[k].name) = ToLowerCase(lastOp.name)
          /\ shadow[k].type # lastOp.type


(***************************************************************************)
(* Properties of the server with its lifecycle (checked under SystemSpec). *)
(***************************************************************************)
\* C12: whenever the transport is bound (queries are being delivered) the
\* hns resolver is open: open() opens the resolver before it binds the
\* transport and close() closes the transport before it closes the
\* resolver; and when opening the resolver failed the transport is not
\* bound, then or later.
LifecycleOrdered ==
    /\ life.transport = "bound" => life.hns = "open"
    /\ (life.pc = "openFailed" /\ life.hns = "closed")
           => life.transport = "unbound"
    /\ \A i \in Issued : life.pc \in {"open", "transportClosed", "closed",
                                      "closeFailed"}

\* close() has closed the transport that delivered a query and has not yet
\* closed the resolver
LifecycleOrderedWitness ==
    /\ life.pc = "transportClosed"
    /\ life.hns = "open"
    /\ life.transport = "unbound"
    /\ Issued # {}

(***************************************************************************)
(* More properties of the server (checked under Spec).                     *)
(***************************************************************************)
\* C11: a reserved-label query answered after the registry returned an
\* address A gets a message with id 0, opcode QUERY, the authenticated flag
\* cleared, the question asked as its question section, and exactly one
\* answer: owner the query name, type TXT, ttl 86000, text
\* 'oa1:eth recipient_address=A; recipient_name=B;' where B is the query
\* name without its final dot, and B was the one argument of resolveENS.
SynthesizedShape ==
    \A i \in QueryIds :
        (queries[i].pc = "done" /\ queries[i].regDone /\ queries[i].reg.ok) =>
            LET qs == queries[i].qs
                r == queries[i].res
                B == [k \in 1..(Len(qs.name) - 1) |-> qs.name[k]]
            IN  /\ B \o <<".">> = qs.name
                /\ queries[i].ethArgs = <<B>>
                /\ r.id = 0
                /\ r.opcode = "QUERY"
                /\ r.ad = FALSE
                /\ r.question = <<qs>>
                /\ Len(r.answer) = 1
                /\ r.answer[1].name = qs.name
                /\ r.answer[1].type = TypeTXT
                /\ r.answer[1].ttl = RecordTTL
                /\ r.answer[1].txt =
                       <<"oa1:eth ", "recipient_address=", queries[i].reg.addr,
                         "; ", "recipient_name=">> \o B \o <<";">>

\* an upper-case spelling answered with the second address of the registry
SynthesizedShapeWitness ==
    \E i \in QueryIds :
        /\ queries[i].pc = "done"
        /\ queries[i].regDone
        /\ queries[i].reg = [ok |-> TRUE, addr |-> "0xB"]
        /\ queries[i].qs = [name |-> A_eth, type |-> TypeTXT]
        /\ queries[i].res.answer[1].txt =
               <<"oa1:eth ", "recipient_address=", "0xB", "; ",
                 "recipient_name=", "A", ".", "e", "t", "h", ";">>

(***************************************************************************)
(* More properties of the server with its lifecycle (under SystemSpec).    *)
(***************************************************************************)
\* C13: lookup(name, type) calls hns.lookup exactly once, with the same
\* name and type, also for a name under 'eth.'; a step of lookup makes no
\* registry call and leaves the cache as it was: no entry read (the order
\* of use is unchanged) and none written.
LookupBypasses ==
    /\ [](\A k \in 1..Len(lookups) :
            lookups[k].hnsArgs =
                <<[name |-> lookups[k].name, type |-> lookups[k].type]>>)
    /\ [][lookups' # lookups =>
            /\ cache' = cache
            /\ shadow' = shadow
            /\ queries' = queries]_vars

\* a lookup of a name under 'eth.' answered by the hns resolver while the
\* cache holds the entry a query for that name stored
LookupBypassesWitness ==
    /\ lookups # <<>>
    /\ lookups[1].name = a_eth
    /\ lookups[1].pc = "done"
    /\ lookups[1].res.ad
    /\ toKey(a_eth, TypeTXT) \in Keys(cache)
    /\ \A i \in QueryIds : Len(queries[i].ethArgs) <= 1

\* C14: queries for one uncached name under 'eth.' that are in flight
\* together are not merged: each makes its own call of resolveENS, each
\* completes with the answer built from its own result, each stores it.
\* The cache then holds exactly one entry under that key, with the bytes
\* and the clock of the store that came last, and never more entries than
\* its capacity.
LastWriteWins ==
    /\ \A i \in QueryIds :
          (queries[i].route = "ens" /\ ~queries[i].hit) =>
              /\ Len(queries[i].ethArgs) = 1
              /\ (queries[i].pc = "done" =>
                    /\ queries[i].sets =
                           <<toKey(queries[i].qs.name, TypeTXT)>>
                    /\ queries[i].res.question = <<queries[i].qs>>
                    /\ queries[i].res.answer[1].txt[3] =
                           TemplateString(queries[i].reg))
    /\ \A key \in Keys(cache) :
          LET at == {k \in 1..Len(cache.items) : cache.items[k].key = key}
              last == ShadowAt(shadow, key).by
          IN  /\ Cardinality(at) = 1
              /\ \A k \in at :
                    /\ cache.items[k].value.raw = Compress(queries[last].res)
                    /\ cache.items[k].value.time = queries[last].wroteAt
    /\ Len(cache.items) <= CacheSize

\* no time has passed and nothing was evicted, so the second of two queries
\* for a.eth. missed only because the first was still waiting for the
\* registry; they got different addresses and the first stored last
LastWriteWinsWitness ==
    \E i, j \in QueryIds :
        /\ i < j
        /\ ticks = 0
        /\ queries[i].qs = queries[j].qs
        /\ queries[i].qs.name = a_eth
        /\ queries[i].pc = "done" /\ queries[j].pc = "done"
        /\ ~queries[i].hit /\ ~queries[j].hit
        /\ queries[i].reg = [ok |-> TRUE, addr |-> "0xA"]
        /\ queries[j].reg = [ok |-> TRUE, addr |-> "0xB"]
        /\ ~queries[i].evicted /\ ~queries[j].evicted
        /\ toKey(a_eth, TypeTXT) \in Keys(cache)
        /\ ShadowAt(shadow, toKey(a_eth, TypeTXT)).by = i
        /\ \E k \in 1..Len(cache.items) :
              /\ cache.items[k].key = toKey(a_eth, TypeTXT)
              /\ cache.items[k].value.raw = Compress(queries[i].res)
              /\ cache.items[k].value.raw # Compress(queries[j].res)

\* C15: a question whose top-level label is not 'eth.' is handed to
\* hns.resolve exactly once; when that call fails resolve fails with the
\* very error it threw, without another call, and a query on this path
\* makes no registry call and neither reads nor writes the cache: the step
\* in which it fails leaves the cache and every other query as they were.
DelegationPassThrough ==
    /\ [](\A i \in Issued :
            TopLabel(queries[i].qs.name) # ReservedLabel =>
                /\ queries[i].hnsArgs = <<queries[i].qs>>
                /\ queries[i].ethArgs = <<>>
                /\ queries[i].gets = <<>>
                /\ queries[i].sets = <<>>
                /\ (queries[i].pc = "fault" =>
                       /\ queries[i].hnsRes = [fault |-> "hns"]
                       /\ queries[i].res = queries[i].hnsRes))
    /\ [][\A i \in QueryIds :
            (queries[i].pc = "awaitHNS" /\ queries'[i].pc = "fault") =>
                /\ cache' = cache
                /\ shadow' = shadow
                /\ \A j \in QueryIds \ {i} : queries'[j] = queries[j]]_vars

\* a delegated question failed while the cache held an entry and a query
\* for a name under 'eth.' was waiting for the registry
DelegationPassThroughWitness ==
    \E i, j \in QueryIds :
        /\ queries[i].qs.name = a_com
        /\ queries[i].pc = "fault"
        /\ queries[i].res = [fault |-> "hns"]
        /\ queries[j].pc = "awaitENS"
        /\ j \in queries[i].peers
        /\ Keys(cache) # {}

\* C16: no head-of-line blocking.  Whatever else is in flight, a suspended
\* query can complete as soon as its own call returns or throws, and a
\* query answered from the cache is never suspended; a query's completion
\* leaves every other suspended query suspended.  So answers come in the
\* order of completion, not of issue.
NoHeadOfLineBlocking ==
    /\ [](\A i \in QueryIds :
            /\ queries[i].pc = "awaitENS" =>
                  /\ \E res \in RegistryResults : ENABLED EthReturn(i, res)
                  /\ ENABLED EthFail(i)
            /\ queries[i].pc = "awaitHNS" =>
                  /\ \A code \in HnsCodes : ENABLED HnsReturn(i, code)
                  /\ ENABLED HnsFail(i)
            /\ queries[i].hit => queries[i].pc = "done")
    /\ [][\A i, j \in QueryIds :
            (/\ i # j
             /\ queries[i].pc \in {"awaitENS", "awaitHNS"}
             /\ queries'[j].pc # queries[j].pc)
                => queries'[i].pc = queries[i].pc]_vars

\* the first query still waits for the registry while the second, issued
\* later, has its answer from the registry and the third its answer from
\* the cache
NoHeadOfLineBlockingWitness ==
    /\ queries[1].pc = "awaitENS"
    /\ queries[1].qs.name = b_eth
    /\ queries[2].pc = "done" /\ queries[2].regDone
    /\ queries[3].pc = "done" /\ queries[3].hit
    /\ queries[3].src = 2

(***************************************************************************)
(* More properties of the cache (checked under CacheSpec).                 *)
(***************************************************************************)
\* what the cache stores: key, bytes and clock of every entry
Stored(c) == {c.items[k] : k \in 1..Len(c.items)}

\* C17: a stale read masks the entry and does not remove it.  A get leaves
\* the stored keys, the bytes and the clock of every entry, and the number
\* of entries as they were, and returns nothing when the entry under its
\* key is older than the window; the passing of time removes nothing
\* either: only a set changes what is stored (by overwriting or evicting).
StaleReadKeepsEntry ==
    [][/\ (nops' = nops + 1 /\ now' = now /\ lastOp'.op = "get") =>
            /\ Stored(cache') = Stored(cache)
            /\ Len(cache'.items) = Len(cache.items)
            /\ \A e \in Stored(cache) :
                  (/\ e.key = toKey(lastOp'.name, lastOp'.type)
                   /\ now > e.value.time + FreshnessWindow)
                      => lastOp'.out = NullMsg
       /\ Stored(cache') # Stored(cache) =>
            (nops' = nops + 1 /\ now' = now /\ lastOp'.op = "set")]_vars

\* a get has just returned nothing for an entry older than the window, and
\* the entry is still one of the entries of a full cache
StaleReadKeepsEntryWitness ==
    /\ lastOp.op = "get"
    /\ lastOp.out = NullMsg
    /\ lastOp.at = now
    /\ Len(cache.items) = CacheSize
    /\ \E e \in Stored(cache) :
          /\ e.key = toKey(lastOp.name, lastOp.type)
          /\ now > e.value.time + FreshnessWindow

(***************************************************************************)
(* Properties of the answers taken from the cache (checked under Spec).    *)
(***************************************************************************)
\* C18: every answer resolve returns for a question under 'eth.', an answer
\* taken from the cache included, has the question of the request being
\* answered as its question section and that question's name as the owner
\* of its answer record.  (Stated for the runs in which every question has
\* type TXT, so that an entry found was stored for the same record type.)
AnswerEchoesQuestion ==
    (\A j \in Issued : queries[j].qs.type = TypeTXT) =>
        \A i \in QueryIds :
            (queries[i].pc = "done" /\ queries[i].route = "ens") =>
                /\ queries[i].res.question = <<queries[i].qs>>
                /\ \A k \in 1..Len(queries[i].res.answer) :
                      queries[i].res.answer[k].name = queries[i].qs.name

(***************************************************************************)
(* Provenance of the cache (checked under SystemSpec).                     *)
(***************************************************************************)
\* C19: the cache holds answers synthesized from the registry only.  Every
\* entry was stored by a query on the interception path after its call of
\* resolveENS returned, holds that query's answer, and has as key the
\* lower-cased name of a question under 'eth.' followed by ';16' (the TXT
\* type code); no query answered by the hns resolver stores anything, and
\* no stored message is one of the hns resolver's.
CacheHoldsSynthesizedOnly ==
    /\ \A e \in Stored(cache) :
          /\ e.key \in ShadowKeys(shadow)
          /\ LET w == ShadowAt(shadow, e.key).by
             IN  /\ w \in QueryIds
                 /\ queries[w].route = "ens"
                 /\ queries[w].regDone
                 /\ queries[w].ethArgs # <<>>
                 /\ TopLabel(queries[w].qs.name) = ReservedLabel
                 /\ e.key = ToLowerCase(queries[w].qs.name)
                               \o <<";", "1", "6">>
                 /\ e.value.raw = Compress(queries[w].res)
                 /\ queries[w].res.ad = FALSE
    /\ \A i \in QueryIds :
          queries[i].hnsArgs # <<>> => queries[i].sets = <<>>

\* the cache is full of answers while a delegated query and a lookup have
\* both been answered by the hns resolver
CacheHoldsSynthesizedOnlyWitness ==
    /\ Len(cache.items) = CacheSize
    /\ lookups # <<>>
    /\ lookups[1].pc = "done"
    /\ Keys(cache) = {toKey(a_eth, TypeTXT), toKey(b_eth, TypeTXT)}

(***************************************************************************)
(* Progress (checked under FairSpec).                                      *)
(***************************************************************************)
\* the call query i is suspended on returns or throws
Completes(i) ==
    \/ \E res \in RegistryResults : EthReturn(i, res)
    \/ EthFail(i)
    \/ \E code \in HnsCodes : HnsReturn(i, code)
    \/ HnsFail(i)

\* a query is given to resolve
Submit(i, qs) ==
    /\ i <= MaxArrivals
    /\ Resolve(i, qs)

FairNext ==
    \/ \E i \in QueryIds, qs \in Questions : Submit(i, qs)
    \/ \E i \in QueryIds, res \in RegistryResults : EthReturn(i, res)
    \/ \E i \in QueryIds : EthFail(i)
    \/ \E i \in QueryIds, code \in HnsCodes : HnsReturn(i, code)
    \/ \E i \in QueryIds : HnsFail(i)
    \/ \E d \in TickSteps : Tick(d)

\* every call of resolveENS and of hns.resolve eventually returns or
\* throws, and the event loop then runs the continuation
FairSpec ==
    Init /\ [][FairNext]_vars /\ \A i \in QueryIds : WF_vars(Completes(i))

\* C20: when every registry call and every call of the hns resolver
\* eventually returns or throws, every query given to resolve eventually
\* ends with an answer or a fault; until then it is suspended on its own
\* one call and on nothing else (no other query, no lock, no timer).
EveryQueryCompletes ==
    /\ [](\A i \in Issued :
            \/ queries[i].pc \in {"done", "fault"}
            \/ queries[i].pc = "awaitENS" /\ Len(queries[i].ethArgs) = 1
            \/ queries[i].pc = "awaitHNS" /\ Len(queries[i].hnsArgs) = 1)
    /\ \A i \in QueryIds :
          (queries[i].pc # "idle") ~> (queries[i].pc \in {"done", "fault"})

\* every query issued has ended, one of them with a fault thrown while
\* another was still suspended
EveryQueryCompletesWitness ==
    /\ Cardinality(Issued) >= 2
    /\ \A i \in Issued : queries[i].pc \in {"done", "fault"}
    /\ \E i, j \in Issued :
          /\ queries[i].pc = "fault"
          /\ j \in queries[i].peers
          /\ queries[j].pc = "done"

====
